---- MODULE Spec2Model ----
(***************************************************************************)
(* Model of the notebook diff-view engine of pochi's VS Code extension:    *)
(* NotebookDiffView (session class), the DiffViewMap registry, the         *)
(* tab-close hook handleTabChanges, and the helpers they call.             *)
(*                                                                         *)
(* The extension runs on one JavaScript thread.  Every async function is a *)
(* process that runs atomically between two of its await points; the       *)
(* actions below are those atomic pieces.  The host (VS Code) is modelled  *)
(* by the files on disk, the notebook document of each file, the open tabs *)
(* and one pending tab-close notification.                                 *)
(*                                                                         *)
(* Strings are sequences of one-character tokens; "LF", "CR" and "BOM"     *)
(* stand for \n, \r and U+FEFF.                                       *)
(***************************************************************************)
EXTENDS Integers, Sequences, FiniteSets, TLC

\* ---------------------------------------------------------------- bounds
\* instances that can be constructed, and the operations callers and the
\* human can issue in one run
MaxInst == 2
MaxCalls == 2
MaxUpdates == 2
MaxSaves == 1
MaxReverts == 2
MaxHuman == 1
\* the versions passed to setForFile, and how many setForFile calls a run makes
MaxVersion == 1
MaxSets == 2

\* the mixes of operations a run is explored with: each run starts with one
\* of these budgets (humanCap and updatesCap keep what the run started with)
Budgets ==
  { [calls |-> MaxCalls, updates |-> 0, saves |-> 0, reverts |-> 0,
     human |-> MaxHuman, humanCap |-> MaxHuman,
     updatesCap |-> 0],
    [calls |-> MaxCalls, updates |-> 0, saves |-> MaxSaves, reverts |-> 1,
     human |-> 0, humanCap |-> 0,
     updatesCap |-> 0],
    [calls |-> MaxCalls, updates |-> 1, saves |-> 0, reverts |-> 1,
     human |-> 0, humanCap |-> 0,
     updatesCap |-> 1],
    [calls |-> 1, updates |-> MaxUpdates, saves |-> 0, reverts |-> 1,
     human |-> 0, humanCap |-> 0,
     updatesCap |-> MaxUpdates],
    [calls |-> 1, updates |-> 1, saves |-> 0, reverts |-> MaxReverts,
     human |-> MaxHuman, humanCap |-> MaxHuman,
     updatesCap |-> 1],
    [calls |-> 1, updates |-> 1, saves |-> MaxSaves, reverts |-> 1,
     human |-> MaxHuman, humanCap |-> MaxHuman,
     updatesCap |-> 1] }

\* ------------------------------------------------------------- universes
Ids == {"X", "Y"}
Paths == {"p"}
Insts == 1..MaxInst

\* a process that is not running
Idle == [pc |-> "idle", raced |-> FALSE]

LF == "LF"
CR == "CR"
BOM == "BOM"

Empty == <<>>
ContentAB == <<"a", LF, "b", LF>>
ContentAC == <<"a", LF, "c", LF>>
ContentACD == <<"a", LF, "c", LF, "d", LF>>
ContentACcrlf == <<"a", CR, LF, "c", CR, LF>>
ContentBomLong == <<BOM, LF, LF, LF, LF, LF, LF, "a">>
\* a stream cut in the middle of its second line
ContentAPartial == <<"a", LF, "c">>

\* a file on disk
Absent == [exists |-> FALSE, content |-> Empty]
OnDisk(content) == [exists |-> TRUE, content |-> content]

\* what a file on disk can hold when the run starts
InitialFiles == {Absent, OnDisk(ContentAB)}
\* contents the tool handlers stream through update
UpdateContents == {ContentAPartial, ContentAC, ContentBomLong}
\* baselines the tool handlers pass to saveChanges
NewContents == {ContentAC, ContentACcrlf}
\* what the human can type into the comparison view
HumanContents == {ContentACD}

\* vscode.NotebookDocument.notebookType of an .ipynb document
NotebookType ==
  <<"j", "u", "p", "y", "t", "e", "r", "-", "n", "o", "t", "e", "b", "o", "o", "k">>

\* --------------------------------------------------- string primitives
Whitespace == {LF, CR, BOM, " "}

\* String.prototype.startsWith
StartsWith(s, ch) == Len(s) > 0 /\ s[1] = ch

\* String.prototype.slice(1)
Slice1(s) == SubSeq(s, 2, Len(s))

\* String.prototype.split("\n")
RECURSIVE SplitFrom(_, _, _)
SplitFrom(s, i, cur) ==
  IF i > Len(s) THEN <<cur>>
  ELSE IF s[i] = LF THEN <<cur>> \o SplitFrom(s, i + 1, <<>>)
  ELSE SplitFrom(s, i + 1, Append(cur, s[i]))

SplitLines(s) == SplitFrom(s, 1, <<>>)

\* Array.prototype.pop (the array that is left)
Pop(a) == IF Len(a) = 0 THEN a ELSE SubSeq(a, 1, Len(a) - 1)

\* Array.prototype.slice(n)
SliceFrom(a, n) == SubSeq(a, n + 1, Len(a))

\* String.prototype.includes("\r\n")
IncludesCRLF(s) == \E i \in 1..(Len(s) - 1) : s[i] = CR /\ s[i + 1] = LF

\* String.prototype.replace(/\r\n|\n/g, eol)
RECURSIVE ReplaceEOLFrom(_, _, _)
ReplaceEOLFrom(s, i, eol) ==
  IF i > Len(s) THEN <<>>
  ELSE IF s[i] = CR /\ i < Len(s) /\ s[i + 1] = LF
       THEN eol \o ReplaceEOLFrom(s, i + 2, eol)
  ELSE IF s[i] = LF THEN eol \o ReplaceEOLFrom(s, i + 1, eol)
  ELSE <<s[i]>> \o ReplaceEOLFrom(s, i + 1, eol)

ReplaceEOL(s, eol) == ReplaceEOLFrom(s, 1, eol)

\* String.prototype.trimEnd
RECURSIVE TrimEnd(_)
TrimEnd(s) ==
  IF Len(s) > 0 /\ s[Len(s)] \in Whitespace
  THEN TrimEnd(SubSeq(s, 1, Len(s) - 1))
  ELSE s

\* x.replace(/\r\n|\n/g, newContentEOL).trimEnd() + newContentEOL
Normalize(s, eol) == TrimEnd(ReplaceEOL(s, eol)) \o eol

NewContentEOL(newContent) ==
  IF IncludesCRLF(newContent) THEN <<CR, LF>> ELSE <<LF>>

\* ------------------------------------------------ diff.diffLines counts
\* the line tokens of diffLines: every line keeps its terminator, and an
\* empty last piece is no token
RECURSIVE TokensFrom(_, _, _)
TokensFrom(s, i, cur) ==
  IF i > Len(s) THEN (IF cur = <<>> THEN <<>> ELSE <<cur>>)
  ELSE IF s[i] = LF THEN <<Append(cur, LF)>> \o TokensFrom(s, i + 1, <<>>)
  ELSE TokensFrom(s, i + 1, Append(cur, s[i]))

LineTokens(s) == TokensFrom(s, 1, <<>>)

Max2(a, b) == IF a >= b THEN a ELSE b

\* length of a longest common subsequence of the token lists a[i..], b[j..]
RECURSIVE Lcs(_, _, _, _)
Lcs(a, b, i, j) ==
  IF i > Len(a) \/ j > Len(b) THEN 0
  ELSE IF a[i] = b[j] THEN 1 + Lcs(a, b, i + 1, j + 1)
  ELSE Max2(Lcs(a, b, i + 1, j), Lcs(a, b, i, j + 1))

\* getEditSummary: the added and removed line counts of a minimal line diff
GetEditSummary(original, modified) ==
  LET a == LineTokens(original)
      b == LineTokens(modified)
      common == Lcs(a, b, 1, 1)
  IN  [added |-> Len(b) - common, removed |-> Len(a) - common]

\* ------------------------------------------------------------------ state
VARIABLES
  file,                \* disk: path -> [exists, content]
  doc,                 \* notebook document of a path: [content, isDirty]
  tabs,                \* the tabs of vscode.window.tabGroups.all
  tabEvent,            \* a tab-close notification waits for the installed hook
  DiffViewMap,         \* the registry, in insertion order: <<[id, view]>>
  DiffViewDisposable,  \* TRUE iff the onDidChangeTabs hook is installed
  needFocusDiffViews,  \* the refocus flag
  views,               \* every NotebookDiffView instance ever constructed
  nViews,              \* how many instances were constructed
  calls,               \* the getOrCreate calls, in the order they were issued
  gc,                  \* the getOrCreate call that holds the run-exclusive queue
  upd,                 \* the update call in flight on each instance
  sav,                 \* the saveChanges call in flight on each instance
  rev,                 \* the revertAndClose call in flight on each instance
  saveResult,          \* what the last saveChanges of an instance returned
  focusRuns,           \* the focusDiffViews calls in flight
  pendingStat,         \* dispose(): paths whose fs.stat has not answered yet
  pendingDelete,       \* dispose(): paths whose fs.delete has not run yet
  effects,             \* per instance: how often each teardown effect ran
  used,                \* how many caller and human operations can still be issued
  modifiedContent,     \* DiffModifiedNotebookProvider.content: key -> entry
  fired,               \* the change notifications that provider has emitted
  setLog,              \* the setForFile calls made so far, in order
  answer               \* what the last call of a provider method gave

vars ==
  <<file, doc, tabs, tabEvent, DiffViewMap, DiffViewDisposable,
    needFocusDiffViews, views, nViews, calls, gc, upd, sav, rev, saveResult,
    focusRuns, pendingStat, pendingDelete, effects, used, modifiedContent,
    fired, setLog, answer>>

providerVars == <<modifiedContent, fired, setLog, answer>>
engineVars ==
  <<file, doc, tabs, tabEvent, DiffViewMap, DiffViewDisposable,
    needFocusDiffViews, views, nViews, calls, gc, upd, sav, rev, saveResult,
    focusRuns, pendingStat, pendingDelete, effects, used>>

\* ------------------------------------------------------------------- tabs
OriginScheme == "pochi-nb-origin"

\* a plain editor tab of a file (vscode.TabInputText)
TextTab(path) ==
  [kind |-> "Text", scheme |-> "file", id |-> "", query |-> <<>>, path |-> path]

\* the tab the host opens for vscode.diff on a notebook
\* (vscode.TabInputNotebookDiff): original = scheme:id?query, modified = path
DiffTab(id, originalContent, path) ==
  [kind |-> "NotebookDiff", scheme |-> OriginScheme, id |-> id,
   query |-> originalContent, path |-> path]

\* closing tabs notifies the hook, if one is installed
CloseNotifies(closed) == closed # {} /\ DiffViewDisposable

\* isFileOpen
IsFileOpen(path) == \E t \in tabs : t.kind = "Text" /\ t.path = path

\* the tabs closeFileEditorTabs closes
FileEditorTabs(path) == {t \in tabs : t.kind = "Text" /\ t.path = path}

\* the tabs closeAllNonDirtyDiffViews closes
NonDirtyDiffTabs ==
  {t \in tabs : /\ t.kind = "NotebookDiff"
                /\ t.scheme = OriginScheme
                /\ ~doc[t.path].isDirty}

\* openDiffEditor: the tabs whose editor can be reused for this file
ReusableDiffTabs(path) ==
  {t \in tabs : /\ t.kind = "NotebookDiff"
                /\ t.scheme = OriginScheme
                /\ t.path = path}

\* --------------------------------------------------------------- registry
MapIds == {DiffViewMap[i].id : i \in 1..Len(DiffViewMap)}
MapViews == {DiffViewMap[i].view : i \in 1..Len(DiffViewMap)}

\* Map.prototype.get; 0 stands for undefined
MapGet(id) ==
  IF id \in MapIds
  THEN DiffViewMap[CHOOSE i \in 1..Len(DiffViewMap) : DiffViewMap[i].id = id].view
  ELSE 0

\* Map.prototype.set for a key that may be present
MapSet(id, v) ==
  IF id \in MapIds
  THEN [i \in 1..Len(DiffViewMap) |->
          IF DiffViewMap[i].id = id THEN [id |-> id, view |-> v]
          ELSE DiffViewMap[i]]
  ELSE Append(DiffViewMap, [id |-> id, view |-> v])

\* a handleTabChanges that disposes the views but leaves out
\* DiffViewMap.delete
MapWithoutDelete(m, ids) == m

\* Map.prototype.delete of a set of keys
RECURSIVE MapWithout(_, _)
MapWithout(m, ids) ==
  IF m = <<>> THEN <<>>
  ELSE IF Head(m).id \in ids THEN MapWithout(Tail(m), ids)
  ELSE <<Head(m)>> \o MapWithout(Tail(m), ids)

\* --------------------------------------------------------------- sessions
\* new NotebookDiffView(...)
NewView(id, fileUri, fileExists, originalContent, wasFileOpenBeforeDiff) ==
  [id |-> id, fileUri |-> fileUri, fileExists |-> fileExists,
   originalContent |-> originalContent,
   isFileOpenBeforeDiffPreview |-> wasFileOpenBeforeDiff,
   isFinalized |-> FALSE, isReverted |-> FALSE, streamedLines |-> <<>>,
   listening |-> FALSE, disposed |-> 0]

\* the slot of an instance that is not constructed yet
NoView == NewView("", "", FALSE, Empty, FALSE)

\* bookkeeping of a view: how often revertAndClose applied its edit, ran
\* save-all, closed the views and reopened the plain tab, how many update
\* and revertAndClose calls the guards turned away, and how often the final
\* update and the revert went without their edit because the converter gave
\* no data
NoEffects ==
  [edits |-> 0, saveAlls |-> 0, closes |-> 0, reopens |-> 0,
   ignoredUpdates |-> 0, ignoredReverts |-> 0,
   skippedEdits |-> 0, skippedReverts |-> 0]

Created == 1..nViews

\* saveChanges has not returned yet
NoResult ==
  [returned |-> FALSE, userEdits |-> FALSE, autoFormattingEdits |-> FALSE,
   editSummary |-> [added |-> 0, removed |-> 0],
   preSave |-> Empty, postSave |-> Empty, newContent |-> Empty]

\* ---------------------------------------------------- content providers
ModifiedScheme == "pochi-nb-modified"

\* the ids and versions callers pass to setForFile; Undefined stands for a
\* version argument that is left out
ProviderIds == {<<"X">>, <<"X", ":", "0">>}
Versions == 0..MaxVersion
Undefined == -1

\* the byte arrays callers pass
ProviderData == {Empty, <<7>>}

\* the default value of the version parameter
DefaultVersion(version) == IF version = Undefined THEN 0 ELSE version

\* a provider that keys its entries by the id alone
KeyOfId(id, version) == id

\* `${id}:${version}`
Key(id, version) == id \o <<":">> \o <<ToString(version)>>

\* a uri.query nothing was stored under
UnknownKey == <<"Z">>

AllKeys == {Key(id, version) : id \in ProviderIds, version \in Versions}
             \cup {UnknownKey}

\* Map.prototype.get gives undefined, or the bytes stored
NoEntry == [present |-> FALSE, data |-> Empty]
Entry(data) == [present |-> TRUE, data |-> data]

\* no provider method was called yet
NoAnswer ==
  [provider |-> "", op |-> "", key |-> Empty, error |-> "", data |-> Empty]

\* a method that returned (void methods return no data)
Returned(provider, op, key, data) ==
  [provider |-> provider, op |-> op, key |-> key, error |-> "none",
   data |-> data]

\* a method that threw a vscode.FileSystemError
Threw(provider, op, key, error) ==
  [provider |-> provider, op |-> op, key |-> key, error |-> error,
   data |-> Empty]

Init ==
  /\ file \in [Paths -> InitialFiles]
  /\ doc = [p \in Paths |->
              [content |-> file[p].content, isDirty |-> FALSE]]
  /\ tabs \in SUBSET {TextTab(p) : p \in {q \in Paths : file[q].exists}}
  /\ tabEvent = FALSE
  /\ DiffViewMap = <<>>
  /\ DiffViewDisposable = FALSE
  /\ needFocusDiffViews = FALSE
  /\ views = [s \in Insts |-> NoView]
  /\ nViews = 0
  /\ calls = <<>>
  /\ gc = Idle
  /\ upd = [s \in Insts |-> Idle]
  /\ sav = [s \in Insts |-> Idle]
  /\ rev = [s \in Insts |-> Idle]
  /\ saveResult = [s \in Insts |-> NoResult]
  /\ focusRuns = <<>>
  /\ pendingStat = {}
  /\ pendingDelete = {}
  /\ effects = [s \in Insts |-> NoEffects]
  /\ used \in Budgets
  /\ modifiedContent = [k \in AllKeys |-> NoEntry]
  /\ fired = <<>>
  /\ setLog = <<>>
  /\ answer = NoAnswer

hostVars == <<file, doc, tabs, tabEvent>>
registryVars == <<DiffViewMap, DiffViewDisposable, needFocusDiffViews>>
callVars == <<upd, sav, rev, saveResult, focusRuns>>
disposeVars == <<pendingStat, pendingDelete>>

\* ------------------------------------------------------------ getOrCreate
\* the calls for this id that are queued or running
PendingFor(id) ==
  {c \in 1..Len(calls) : calls[c].id = id /\ calls[c].st \in {"queued", "running"}}

\* a caller issues getOrCreate(id, relpath, cwd): run-exclusive queues it.
\* fresh and pending record whether the id was registered and which calls
\* for it were under way when this one was issued
GetOrCreateCall(id, relpath) ==
  /\ used.calls > 0
  /\ used' = [used EXCEPT !.calls = @ - 1]
  /\ calls' = Append(calls, [id |-> id, relpath |-> relpath, st |-> "queued",
                             result |-> 0, fresh |-> (id \notin MapIds),
                             pending |-> PendingFor(id)])
  /\ UNCHANGED <<providerVars, hostVars, registryVars, views, nViews, gc, callVars,
                 disposeVars, effects>>

Queued == {c \in 1..Len(calls) : calls[c].st = "queued"}

\* the queue hands the oldest waiting call the turn: the hook is installed
\* for the first view, a registered view is returned at once, and otherwise
\* createDiffView starts and suspends in isFileExists
GetOrCreateStart ==
  /\ gc = Idle
  /\ Queued # {}
  /\ LET c == CHOOSE x \in Queued : \A y \in Queued : x <= y
         diffView == MapGet(calls[c].id)
     IN  /\ diffView # 0 \/ nViews < MaxInst
         /\ DiffViewDisposable' =
              (DiffViewDisposable \/ (Len(DiffViewMap) = 0 /\ ~DiffViewDisposable))
         /\ IF diffView # 0
            THEN /\ calls' = [calls EXCEPT ![c].st = "resolved",
                                           ![c].result = diffView]
                 /\ gc' = gc
            ELSE /\ calls' = [calls EXCEPT ![c].st = "running"]
                 /\ gc' = [pc |-> "create", call |-> c, fileExists |-> FALSE,
                           originalContent |-> Empty]
  /\ UNCHANGED <<providerVars, hostVars, DiffViewMap, needFocusDiffViews, views, nViews,
                 callVars, disposeVars, effects, used>>

\* createDiffView up to the comparison view: the missing file is created
\* empty, the original content is read, and openDiffEditor either finds a
\* comparison tab of the same file whose notebook editor is visible (the
\* host decides whether it is) or runs vscode.diff and waits for the editor
GetOrCreateOpen ==
  /\ gc.pc = "create"
  /\ LET c == calls[gc.call]
         fileUri == c.relpath
         fileExists == file[fileUri].exists
         written == IF fileExists THEN file
                    ELSE [file EXCEPT ![fileUri] = OnDisk(Empty)]
         originalContent == written[fileUri].content
     IN  /\ file' = written
         /\ \/ /\ ReusableDiffTabs(fileUri) # {}
               /\ tabs' = tabs
               /\ gc' = [gc EXCEPT !.pc = "opened", !.fileExists = fileExists,
                                   !.originalContent = originalContent]
            \/ /\ tabs' = tabs \cup {DiffTab(c.id, originalContent, fileUri)}
               /\ gc' = [gc EXCEPT !.pc = "activating",
                                   !.fileExists = fileExists,
                                   !.originalContent = originalContent]
  /\ UNCHANGED <<providerVars, doc, tabEvent, registryVars, views, nViews, calls, callVars,
                 disposeVars, effects, used>>

\* runVSCodeDiff: the host reports the notebook editor of the file active
GetOrCreateActivated ==
  /\ gc.pc = "activating"
  /\ gc' = [gc EXCEPT !.pc = "opened"]
  /\ UNCHANGED <<providerVars, hostVars, registryVars, views, nViews, calls, callVars,
                 disposeVars, effects, used>>

\* a timeout that rejects the call but keeps the turn in the queue
GetOrCreateTimeoutKeepsQueue ==
  /\ gc.pc = "activating"
  /\ calls' = [calls EXCEPT ![gc.call].st = "rejected"]
  /\ gc' = [gc EXCEPT !.pc = "stuck"]
  /\ UNCHANGED <<providerVars, hostVars, registryVars, views, nViews, callVars,
                 disposeVars, effects, used>>

\* runVSCodeDiff: the 10 s timer fires first; the call is rejected and the
\* queue is released
GetOrCreateTimeout ==
  /\ gc.pc = "activating"
  /\ calls' = [calls EXCEPT ![gc.call].st = "rejected"]
  /\ gc' = Idle
  /\ UNCHANGED <<providerVars, hostVars, registryVars, views, nViews, callVars,
                 disposeVars, effects, used>>

\* the rest of createDiffView and of getOrCreate: isFileOpen, the
\* constructor, DiffViewMap.set, closeFileEditorTabs, return
GetOrCreateRegister ==
  /\ gc.pc = "opened"
  /\ LET c == calls[gc.call]
         fileUri == c.relpath
         v == nViews + 1
         closed == FileEditorTabs(fileUri)
     IN  /\ views' = [views EXCEPT ![v] =
                        NewView(c.id, fileUri, gc.fileExists,
                                gc.originalContent, IsFileOpen(fileUri))]
         /\ nViews' = v
         /\ DiffViewMap' = MapSet(c.id, v)
         /\ tabs' = tabs \ closed
         /\ tabEvent' = (tabEvent \/ CloseNotifies(closed))
         /\ calls' = [calls EXCEPT ![gc.call].st = "resolved",
                                   ![gc.call].result = v]
         /\ gc' = Idle
  /\ UNCHANGED <<providerVars, file, doc, DiffViewDisposable, needFocusDiffViews, callVars,
                 disposeVars, effects, used>>

\* --------------------------------------------------------------- dispose
\* NotebookDiffView.dispose: the listeners are released; for a file that did
\* not exist before, the stat-and-delete task is started
DisposeView(v) == [v EXCEPT !.disposed = @ + 1, !.listening = FALSE]

\* the paths whose stat-and-delete task dispose starts
StatTasks(disposedViews) ==
  {views[s].fileUri : s \in {x \in disposedViews : ~views[x].fileExists}}

\* fs.stat answers: an empty file goes on to fs.delete (a failing stat is
\* caught and logged)
DisposeStat(path) ==
  /\ path \in pendingStat
  /\ pendingStat' = pendingStat \ {path}
  /\ pendingDelete' =
       IF file[path].exists /\ Len(file[path].content) = 0
       THEN pendingDelete \cup {path} ELSE pendingDelete
  /\ UNCHANGED <<providerVars, hostVars, registryVars, views, nViews, calls, gc, callVars,
                 effects, used>>

\* fs.delete runs
DisposeDelete(path) ==
  /\ path \in pendingDelete
  /\ pendingDelete' = pendingDelete \ {path}
  /\ file' = [file EXCEPT ![path] = Absent]
  /\ UNCHANGED <<providerVars, doc, tabs, tabEvent, registryVars, views, nViews, calls, gc,
                 callVars, pendingStat, effects, used>>

\* fs.stat rejects: the catch of dispose logs it, nothing is deleted
DisposeStatFails(path) ==
  /\ path \in pendingStat
  /\ pendingStat' = pendingStat \ {path}
  /\ UNCHANGED <<providerVars, hostVars, registryVars, views, nViews, calls, gc, callVars,
                 pendingDelete, effects, used>>

\* fs.delete rejects: the catch of dispose logs it, the file stays
DisposeDeleteFails(path) ==
  /\ path \in pendingDelete
  /\ pendingDelete' = pendingDelete \ {path}
  /\ UNCHANGED <<providerVars, hostVars, registryVars, views, nViews, calls, gc, callVars,
                 pendingStat, effects, used>>

\* ------------------------------------------------------ handleTabChanges
\* the ids of the comparison views handleTabChanges takes for visible
VisibleDiffViewIds ==
  {t.id : t \in {x \in tabs : x.kind = "TextDiff" /\ x.scheme = OriginScheme}}

\* a handleTabChanges that removes the sessions without an open comparison
\* view only, and not the other sessions of their file paths
IdsWithoutView ==
  {id \in MapIds : \A t \in tabs : ~(t.kind = "NotebookDiff" /\ t.id = id)}

\* the ids handleTabChanges removes: those not visible, and those of the
\* same file paths
IdsToRemove ==
  LET gone == {id \in MapIds : id \notin VisibleDiffViewIds}
      filePathsToClose == {views[MapGet(id)].fileUri : id \in gone}
  IN  gone \cup {id \in MapIds : views[MapGet(id)].fileUri \in filePathsToClose}

\* a focusDiffViews call that has not visited any view yet
NewFocusRun == [visited |-> {}, cur |-> 0]

\* the hook runs for a tab-close notification
HandleTabChanges ==
  /\ tabEvent
  /\ DiffViewDisposable
  /\ tabEvent' = FALSE
  /\ LET idsToRemove == IdsToRemove
         removed == {MapGet(id) : id \in idsToRemove}
         remaining == MapWithout(DiffViewMap, idsToRemove)
     IN  /\ views' = [s \in Insts |->
                        IF s \in removed THEN DisposeView(views[s]) ELSE views[s]]
         /\ pendingStat' = pendingStat \cup StatTasks(removed)
         /\ DiffViewMap' = remaining
         /\ DiffViewDisposable' = (Len(remaining) # 0)
  /\ needFocusDiffViews' = FALSE
  /\ focusRuns' = IF needFocusDiffViews THEN Append(focusRuns, NewFocusRun)
                  ELSE focusRuns
  /\ UNCHANGED <<providerVars, file, doc, tabs, nViews, calls, gc, upd, sav, rev, saveResult,
                 pendingDelete, effects, used>>

\* ------------------------------------------------------------ host pieces
\* a workspace edit over an empty range: the document is touched, its cells
\* stay
ReplaceNoCells(path, bytes) ==
  [doc EXCEPT ![path] = [content |-> doc[path].content, isDirty |-> TRUE]]

\* vscode.executeDataToNotebook followed by NotebookEdit.replaceCells over
\* the full range: the document then holds the cells of these bytes, and is
\* dirty
ReplaceCells(path, bytes) ==
  [doc EXCEPT ![path] = [content |-> bytes, isDirty |-> TRUE]]

\* what a save-time formatter of the host makes of a document
FormatOnSave(content) ==
  IF Len(content) > 0 /\ content[Len(content)] # LF
  THEN Append(content, LF) ELSE content

\* what a save can leave in the document: its content, formatted or not
SavedContents(content) == {content, FormatOnSave(content)}

\* ----------------------------------------------------------------- update
ShouldAutoScroll == TRUE

\* accumulatedContent: the content without a leading BOM
StripBom(content) == IF StartsWith(content, BOM) THEN Slice1(content) ELSE content

\* lines that keep the last, possibly partial, line in every update
AccumulatedLinesAll(content, isFinal) == SplitLines(StripBom(content))

\* accumulatedLines
AccumulatedLines(content, isFinal) ==
  LET all == SplitLines(StripBom(content))
  IN  IF isFinal THEN all ELSE Pop(all)

\* an update that tests isReverted only
UpdateIgnoredIfReverted(v) == v.isReverted

\* the guard at the top of update
UpdateIgnored(v) == v.isFinalized \/ v.isReverted

\* update(content, isFinal, abortSignal) up to its first await; signal tells
\* whether an abortSignal is passed
UpdateCall(s, content, isFinal, signal) ==
  /\ s \in Created
  /\ upd[s] = Idle
  /\ used.updates > 0
  /\ used' = [used EXCEPT !.updates = @ - 1]
  /\ IF UpdateIgnored(views[s])
     THEN /\ effects' = [effects EXCEPT ![s].ignoredUpdates = @ + 1]
          /\ UNCHANGED <<views, upd>>
     ELSE LET accumulatedLines == AccumulatedLines(content, isFinal)
              diffLines == SliceFrom(accumulatedLines, Len(views[s].streamedLines))
              currentLine == Len(views[s].streamedLines) + Len(diffLines) - 1
              animates == currentLine >= 0 /\ ShouldAutoScroll
                          /\ Len(diffLines) > 5
              flagged == [views[s] EXCEPT
                            !.isFinalized = (@ \/ isFinal),
                            !.listening = (@ \/ signal)]
              run == [pc |-> "idle", content |-> StripBom(content),
                      isFinal |-> isFinal, lines |-> accumulatedLines]
          IN  /\ effects' = effects
              /\ IF animates
                 THEN /\ views' = [views EXCEPT ![s] = flagged]
                      /\ upd' = [upd EXCEPT ![s] =
                                   [run EXCEPT !.pc = "scrolling"]]
                 ELSE /\ views' = [views EXCEPT ![s] =
                                     [flagged EXCEPT
                                        !.streamedLines = accumulatedLines]]
                      /\ upd' = [upd EXCEPT ![s] =
                                   IF isFinal THEN [run EXCEPT !.pc = "decoding"]
                                   ELSE Idle]
  /\ UNCHANGED <<providerVars, hostVars, registryVars, nViews, calls, gc, sav, rev,
                 saveResult, focusRuns, disposeVars>>

\* an animation that writes what it streamed into the document
UpdateScrolledEdits(s) ==
  /\ upd[s].pc = "scrolling"
  /\ views' = [views EXCEPT ![s].streamedLines = upd[s].lines]
  /\ doc' = ReplaceCells(views[s].fileUri, upd[s].content)
  /\ upd' = [upd EXCEPT ![s] =
               IF upd[s].isFinal THEN [upd[s] EXCEPT !.pc = "decoding"] ELSE Idle]
  /\ UNCHANGED <<providerVars, file, tabs, tabEvent, registryVars, nViews, calls, gc,
                 sav, rev, saveResult, focusRuns, disposeVars, effects, used>>

\* the scrolling animation of a large delta is over
UpdateScrolled(s) ==
  /\ upd[s].pc = "scrolling"
  /\ views' = [views EXCEPT ![s].streamedLines = upd[s].lines]
  /\ upd' = [upd EXCEPT ![s] =
               IF upd[s].isFinal THEN [upd[s] EXCEPT !.pc = "decoding"] ELSE Idle]
  /\ UNCHANGED <<providerVars, hostVars, registryVars, nViews, calls, gc, sav, rev,
                 saveResult, focusRuns, disposeVars, effects, used>>

\* what vscode.executeDataToNotebook can answer: notebook data, nothing, or
\* a rejection
DecodeOutcomes == {"data", "absent", "throws"}

\* an edit that is applied whatever the converter answered
DecodedDocAlways(path, bytes, outcome) == ReplaceCells(path, bytes)

\* the document after `if (data) { ... applyEdit }`
DecodedDoc(path, bytes, outcome) ==
  IF outcome = "data" THEN ReplaceCells(path, bytes) ELSE doc

\* the final update: the converter answers (data, or nothing, or it throws
\* and the catch logs it); with data the whole document is replaced; the
\* 300 ms wait and the scroll to the top change no state
UpdateDecodedAs(s, outcome) ==
  /\ upd[s].pc = "decoding"
  /\ doc' = DecodedDoc(views[s].fileUri, upd[s].content, outcome)
  /\ effects' = IF outcome = "data" THEN effects
                ELSE [effects EXCEPT ![s].skippedEdits = @ + 1]
  /\ upd' = [upd EXCEPT ![s] = Idle]
  /\ UNCHANGED <<providerVars, file, tabs, tabEvent, registryVars, views, nViews, calls, gc,
                 sav, rev, saveResult, focusRuns, disposeVars, used>>

UpdateDecoded(s) == \E outcome \in DecodeOutcomes : UpdateDecodedAs(s, outcome)

\* --------------------------------------------------------- revertAndClose
\* a revertAndClose without the isReverted test
RevertNeverIgnored(v) == FALSE

\* the guard at the top of revertAndClose
RevertIgnored(v) == v.isReverted

\* revertAndClose is reached through NotebookDiffView.revertAndClose(id) for
\* a registered view, or through the abort listener update attached
RevertReachable(s) ==
  s \in Created /\ (MapGet(views[s].id) = s \/ views[s].listening)

\* revertAndClose up to its first await: discardChangesWithWorkspaceEdit
\* returns at once for a document that is not dirty.  raced records whether
\* an update of the view was in flight when the call was made
RevertCall(s) ==
  /\ RevertReachable(s)
  /\ used.reverts > 0
  /\ used' = [used EXCEPT !.reverts = @ - 1]
  /\ IF RevertIgnored(views[s])
     THEN /\ effects' = [effects EXCEPT ![s].ignoredReverts = @ + 1]
          /\ UNCHANGED <<views, rev>>
     ELSE /\ effects' = effects
          /\ views' = [views EXCEPT ![s].isReverted = TRUE]
          /\ rev' = [rev EXCEPT ![s] =
                       [pc |-> IF doc[views[s].fileUri].isDirty
                               THEN "decoding" ELSE "closing",
                        raced |-> (upd[s].pc # "idle")]]
  /\ UNCHANGED <<providerVars, hostVars, registryVars, nViews, calls, gc, upd, sav,
                 saveResult, focusRuns, disposeVars>>

\* discardChangesWithWorkspaceEdit: the converter answers; with data the
\* whole document is replaced by the original content and saved, with
\* nothing the function returns at once
RevertDecodedAs(s, outcome) ==
  /\ rev[s].pc = "decoding"
  /\ doc' = DecodedDoc(views[s].fileUri, views[s].originalContent, outcome)
  /\ IF outcome = "data"
     THEN /\ effects' = [effects EXCEPT ![s].edits = @ + 1]
          /\ rev' = [rev EXCEPT ![s].pc = "saving"]
     ELSE /\ effects' = [effects EXCEPT ![s].skippedReverts = @ + 1]
          /\ rev' = [rev EXCEPT ![s].pc = "closing"]
  /\ UNCHANGED <<providerVars, file, tabs, tabEvent, registryVars, views, nViews, calls, gc,
                 upd, sav, saveResult, focusRuns, disposeVars, used>>

RevertDecoded(s) ==
  \E outcome \in {"data", "absent"} : RevertDecodedAs(s, outcome)

\* workspace.saveAll(false): every dirty document is written to its file
RevertSaveAll(s) ==
  /\ rev[s].pc = "saving"
  /\ \E saved \in [Paths -> BOOLEAN] :
       LET out(p) == IF saved[p] THEN FormatOnSave(doc[p].content)
                     ELSE doc[p].content
       IN  /\ \A p \in Paths : saved[p] => doc[p].isDirty
                                           /\ out(p) # doc[p].content
           /\ doc' = [p \in Paths |->
                        IF doc[p].isDirty
                        THEN [content |-> out(p), isDirty |-> FALSE]
                        ELSE doc[p]]
           /\ file' = [p \in Paths |->
                         IF doc[p].isDirty THEN OnDisk(out(p)) ELSE file[p]]
  /\ effects' = [effects EXCEPT ![s].saveAlls = @ + 1]
  /\ rev' = [rev EXCEPT ![s].pc = "closing"]
  /\ UNCHANGED <<providerVars, tabs, tabEvent, registryVars, views, nViews, calls, gc, upd,
                 sav, saveResult, focusRuns, disposeVars, used>>

\* closeAllNonDirtyDiffViews, then on to reopening the plain tab
RevertCloseViews(s) ==
  /\ rev[s].pc = "closing"
  /\ tabs' = tabs \ NonDirtyDiffTabs
  /\ tabEvent' = (tabEvent \/ CloseNotifies(NonDirtyDiffTabs))
  /\ effects' = [effects EXCEPT ![s].closes = @ + 1]
  /\ rev' = [rev EXCEPT ![s].pc =
               IF views[s].isFileOpenBeforeDiffPreview THEN "reopening"
               ELSE "done"]
  /\ UNCHANGED <<providerVars, file, doc, registryVars, views, nViews, calls, gc, upd, sav,
                 saveResult, focusRuns, disposeVars, used>>

\* the file that was open before is shown again in a plain tab
RevertReopen(s) ==
  /\ rev[s].pc = "reopening"
  /\ tabs' = tabs \cup {TextTab(views[s].fileUri)}
  /\ effects' = [effects EXCEPT ![s].reopens = @ + 1]
  /\ rev' = [rev EXCEPT ![s].pc = "done"]
  /\ UNCHANGED <<providerVars, file, doc, tabEvent, registryVars, views, nViews, calls, gc,
                 upd, sav, saveResult, focusRuns, disposeVars, used>>

\* a host call revertAndClose awaits outside a try block rejects (the
\* converter or applyEdit, saveAll, tabGroups.close): nothing catches it and
\* the promise of revertAndClose rejects
RevertRejects(s) ==
  /\ rev[s].pc \in {"decoding", "saving", "closing"}
  /\ rev' = [rev EXCEPT ![s].pc = "rejected"]
  /\ UNCHANGED <<providerVars, hostVars, registryVars, views, nViews, calls, gc, upd, sav,
                 saveResult, focusRuns, disposeVars, effects, used>>

\* openTextDocument or showTextDocument throws: the catch logs it and
\* revertAndClose completes without the plain tab
RevertReopenFails(s) ==
  /\ rev[s].pc = "reopening"
  /\ rev' = [rev EXCEPT ![s].pc = "done"]
  /\ UNCHANGED <<providerVars, hostVars, registryVars, views, nViews, calls, gc, upd, sav,
                 saveResult, focusRuns, disposeVars, effects, used>>

\* ------------------------------------------------------------ saveChanges
\* saveChanges(relPath, newContent) up to its first await: preSaveContent
\* is read, and a dirty document is saved.  preDoc and postDoc record what
\* the document holds before and after the save; late records whether
\* revertAndClose had completed on the view when the call was made
SaveCall(s, newContent) ==
  /\ s \in Created
  /\ sav[s] = Idle
  /\ used.saves > 0
  /\ used' = [used EXCEPT !.saves = @ - 1]
  /\ LET d == doc[views[s].fileUri]
     IN  sav' = [sav EXCEPT ![s] =
                   [pc |-> IF d.isDirty THEN "saving" ELSE "showing",
                    newContent |-> newContent,
                    preSaveContent |-> NotebookType,
                    postSaveContent |-> NotebookType,
                    preDoc |-> d.content, postDoc |-> d.content,
                    late |-> (rev[s].pc = "done")]]
  /\ UNCHANGED <<providerVars, hostVars, registryVars, views, nViews, calls, gc, upd, rev,
                 saveResult, focusRuns, disposeVars, effects>>

\* updatedDocument.save() is done: the file holds the document, formatted
\* by the host or not; postSaveContent is read
SaveSaved(s) ==
  /\ sav[s].pc = "saving"
  /\ \E out \in SavedContents(doc[views[s].fileUri].content) :
       /\ doc' = [doc EXCEPT ![views[s].fileUri] =
                    [content |-> out, isDirty |-> FALSE]]
       /\ file' = [file EXCEPT ![views[s].fileUri] = OnDisk(out)]
       /\ sav' = [sav EXCEPT ![s].pc = "showing",
                             ![s].postSaveContent = NotebookType,
                             ![s].postDoc = out]
  /\ UNCHANGED <<providerVars, tabs, tabEvent, registryVars, views, nViews, calls, gc, upd,
                 rev, saveResult, focusRuns, disposeVars, effects, used>>

\* what saveChanges returns; a patch is recorded by whether it is present
SaveReturn(v, run) ==
  LET newContentEOL == NewContentEOL(run.newContent)
      normalizedPreSaveContent == Normalize(run.preSaveContent, newContentEOL)
      normalizedPostSaveContent == Normalize(run.postSaveContent, newContentEOL)
      normalizedNewContent == Normalize(run.newContent, newContentEOL)
  IN  [returned |-> TRUE,
       userEdits |-> normalizedPreSaveContent # normalizedNewContent,
       autoFormattingEdits |->
         normalizedPreSaveContent # normalizedPostSaveContent,
       editSummary |-> GetEditSummary(v.originalContent, run.postSaveContent),
       preSave |-> run.preDoc, postSave |-> run.postDoc,
       newContent |-> run.newContent]

\* the rest of saveChanges: the file is shown in a plain tab, the refocus
\* flag is raised, closeAllNonDirtyDiffViews runs, the diagnostics wait
\* passes and the result is returned
SaveShown(s) ==
  /\ sav[s].pc = "showing"
  /\ LET shown == tabs \cup {TextTab(views[s].fileUri)}
         closed == NonDirtyDiffTabs
     IN  /\ tabs' = shown \ closed
         /\ tabEvent' = (tabEvent \/ CloseNotifies(closed))
  /\ needFocusDiffViews' = TRUE
  /\ saveResult' = [saveResult EXCEPT ![s] = SaveReturn(views[s], sav[s])]
  /\ sav' = [sav EXCEPT ![s] = Idle]
  /\ UNCHANGED <<providerVars, file, doc, DiffViewMap, DiffViewDisposable, views, nViews,
                 calls, gc, upd, rev, focusRuns, disposeVars, effects, used>>

\* ------------------------------------------------- focusDiffViews, focus
\* the registered views a focusDiffViews call has not visited, in map order
ToFocus(run) ==
  SelectSeq(DiffViewMap, LAMBDA e : e.view \notin run.visited)

RemoveAt(seq, k) == SubSeq(seq, 1, k - 1) \o SubSeq(seq, k + 1, Len(seq))

\* focusDiffViews moves on: the loop ends, or focus() of the next view runs
\* vscode.diff and waits for the editor
FocusNext(k) ==
  /\ k \in 1..Len(focusRuns)
  /\ focusRuns[k].cur = 0
  /\ LET todo == ToFocus(focusRuns[k])
     IN  IF todo = <<>>
         THEN /\ focusRuns' = RemoveAt(focusRuns, k)
              /\ tabs' = tabs
         ELSE LET v == Head(todo).view
              IN  /\ focusRuns' = [focusRuns EXCEPT ![k].cur = v]
                  /\ tabs' = tabs \cup
                       {DiffTab(views[v].id, views[v].originalContent,
                                views[v].fileUri)}
  /\ UNCHANGED <<providerVars, file, doc, tabEvent, registryVars, views, nViews, calls, gc,
                 upd, sav, rev, saveResult, disposeVars, effects, used>>

\* the host reports the editor active: focus() resolves
FocusActivated(k) ==
  /\ k \in 1..Len(focusRuns)
  /\ focusRuns[k].cur # 0
  /\ focusRuns' = [focusRuns EXCEPT ![k].visited = @ \cup {focusRuns[k].cur},
                                    ![k].cur = 0]
  /\ UNCHANGED <<providerVars, hostVars, registryVars, views, nViews, calls, gc, upd, sav,
                 rev, saveResult, disposeVars, effects, used>>

\* the 10 s timer fires first: focus() rejects and focusDiffViews ends
FocusTimeout(k) ==
  /\ k \in 1..Len(focusRuns)
  /\ focusRuns[k].cur # 0
  /\ focusRuns' = RemoveAt(focusRuns, k)
  /\ UNCHANGED <<providerVars, hostVars, registryVars, views, nViews, calls, gc, upd, sav,
                 rev, saveResult, disposeVars, effects, used>>

\* -------------------------------------------------------------- the human
\* the human closes a tab
HumanCloseTab(t) ==
  /\ t \in tabs
  /\ used.human > 0
  /\ used' = [used EXCEPT !.human = @ - 1]
  /\ tabs' = tabs \ {t}
  /\ tabEvent' = (tabEvent \/ CloseNotifies({t}))
  /\ UNCHANGED <<providerVars, file, doc, registryVars, views, nViews, calls, gc, callVars,
                 disposeVars, effects>>

\* the human edits the notebook in a comparison view
HumanEdit(path, content) ==
  /\ ReusableDiffTabs(path) # {}
  /\ used.human > 0
  /\ used' = [used EXCEPT !.human = @ - 1]
  /\ doc' = [doc EXCEPT ![path] = [content |-> content, isDirty |-> TRUE]]
  /\ UNCHANGED <<providerVars, file, tabs, tabEvent, registryVars, views, nViews, calls, gc,
                 callVars, disposeVars, effects>>

\* ------------------------------------------- DiffModifiedNotebookProvider
\* setForFile(id, path, data, version): the bytes are stored under the key
\* and one change notification for the virtual resource is fired
SetForFile(id, path, data, version) ==
  /\ Len(setLog) < MaxSets
  /\ LET v == DefaultVersion(version)
         key == Key(id, v)
     IN  /\ modifiedContent' = [modifiedContent EXCEPT ![key] = Entry(data)]
         /\ fired' = Append(fired, [type |-> "Changed", scheme |-> ModifiedScheme,
                                    path |-> path, query |-> key])
         /\ setLog' = Append(setLog, [id |-> id, version |-> v, data |-> data])
         /\ answer' = Returned("modified", "setForFile", key, Empty)
  /\ UNCHANGED engineVars

\* readFile(uri): the bytes stored under uri.query, or FileNotFound when
\* Map.get gives undefined (an empty Uint8Array is an object, hence truthy)
ModifiedReadFile(key) ==
  /\ answer' = IF ~modifiedContent[key].present
                THEN Threw("modified", "readFile", key, "FileNotFound")
                ELSE Returned("modified", "readFile", key,
                              modifiedContent[key].data)
  /\ UNCHANGED <<engineVars, modifiedContent, fired, setLog>>

MutationOps == {"createDirectory", "writeFile", "delete", "rename"}

\* the resources the host asks to change: one that can hold bytes, one that
\* never does
MutationKeys == {Key(<<"X">>, 0), UnknownKey}

\* a provider whose writeFile stores the bytes
StoredAfterWrite(op, key, data) ==
  IF op = "writeFile" THEN [modifiedContent EXCEPT ![key] = Entry(data)]
  ELSE modifiedContent

\* what the provider stores after createDirectory, writeFile, delete or
\* rename: the methods take no parameter and touch nothing
StoredAfter(op, key, data) == modifiedContent

\* createDirectory, writeFile, delete, rename of the modified-content
\* provider: whatever the arguments, NoPermissions is thrown
ModifiedMutate(op, key, data) ==
  /\ modifiedContent' = StoredAfter(op, key, data)
  /\ answer' = Threw("modified", op, key, "NoPermissions")
  /\ UNCHANGED <<engineVars, fired, setLog>>

\* ---------------------------------------------- DiffOriginNotebookProvider
\* createDirectory, writeFile, delete, rename of the original-content
\* provider, which stores nothing: NoPermissions is thrown
OriginMutate(op, key, data) ==
  /\ answer' = Threw("origin", op, key, "NoPermissions")
  /\ UNCHANGED <<engineVars, modifiedContent, fired, setLog>>

\* ---------------------------------------------------------- specification
Next ==
  \/ \E id \in Ids, relpath \in Paths : GetOrCreateCall(id, relpath)
  \/ GetOrCreateStart
  \/ GetOrCreateOpen
  \/ GetOrCreateActivated
  \/ GetOrCreateTimeout
  \/ GetOrCreateRegister
  \/ HandleTabChanges
  \/ \E path \in Paths : DisposeStat(path)
  \/ \E path \in Paths : DisposeDelete(path)
  \/ \E path \in Paths : DisposeStatFails(path)
  \/ \E path \in Paths : DisposeDeleteFails(path)
  \/ \E s \in Insts, content \in UpdateContents, isFinal \in BOOLEAN,
        signal \in BOOLEAN : UpdateCall(s, content, isFinal, signal)
  \/ \E s \in Insts : UpdateScrolled(s)
  \/ \E s \in Insts : UpdateDecoded(s)
  \/ \E s \in Insts : RevertCall(s)
  \/ \E s \in Insts : RevertDecoded(s)
  \/ \E s \in Insts : RevertSaveAll(s)
  \/ \E s \in Insts : RevertCloseViews(s)
  \/ \E s \in Insts : RevertReopen(s)
  \/ \E s \in Insts : RevertRejects(s)
  \/ \E s \in Insts : RevertReopenFails(s)
  \/ \E s \in Insts, newContent \in NewContents : SaveCall(s, newContent)
  \/ \E s \in Insts : SaveSaved(s)
  \/ \E s \in Insts : SaveShown(s)
  \/ \E k \in 1..MaxSaves : FocusNext(k)
  \/ \E k \in 1..MaxSaves : FocusActivated(k)
  \/ \E k \in 1..MaxSaves : FocusTimeout(k)
  \/ \E t \in tabs : HumanCloseTab(t)
  \/ \E path \in Paths, content \in HumanContents : HumanEdit(path, content)

Spec == Init /\ [][Next]_vars

\* the providers on their own: the host and the tools call their methods
\* in any order, while the diff-view engine stays in one initial state
ProviderInit ==
  /\ Init
  /\ tabs = {}
  /\ \A p \in Paths : ~file[p].exists
  /\ used.updates = 0 /\ used.saves = 0

ProviderNext ==
  \/ \E id \in ProviderIds, path \in Paths, data \in ProviderData,
        version \in Versions \cup {Undefined} :
          SetForFile(id, path, data, version)
  \/ \E key \in AllKeys : ModifiedReadFile(key)
  \/ \E op \in MutationOps, key \in MutationKeys, data \in ProviderData :
        ModifiedMutate(op, key, data)
  \/ \E op \in MutationOps, key \in MutationKeys, data \in ProviderData :
        OriginMutate(op, key, data)

ProviderSpec == ProviderInit /\ [][ProviderNext]_vars

\* ================================================================ claims
DiffTabsOf(id) == {t \in tabs : t.kind = "NotebookDiff" /\ t.id = id}

\* the human has neither closed a tab nor edited a document so far
HumanIdle == used.human = used.humanCap

\* C1: two getOrCreate calls issued concurrently for the same id that is not
\* yet registered both resolve to the same session instance (the comparison
\* view is created once for them).
C1_ConcurrentCallsShareInstance ==
  \A c2 \in 1..Len(calls) : \A c1 \in calls[c2].pending :
    (/\ calls[c1].fresh /\ calls[c2].fresh
     /\ calls[c1].st = "resolved" /\ calls[c2].st = "resolved")
    => calls[c1].result = calls[c2].result

\* C2: the registry holds at most one session per id, no instance is
\* registered under two ids, a registered instance is not disposed, and no
\* instance is ever disposed more than once.
C2_TeardownAtMostOnce ==
  /\ \A i, j \in 1..Len(DiffViewMap) :
       (DiffViewMap[i].id = DiffViewMap[j].id
        \/ DiffViewMap[i].view = DiffViewMap[j].view) => i = j
  /\ \A s \in MapViews : views[s].disposed = 0
  /\ \A s \in Insts : views[s].disposed <= 1

\* C2 witness: an instance was disposed and removed, and a later instance
\* is registered under the same id
C2_Witness ==
  \E s \in Created, r \in MapViews :
    /\ views[s].disposed = 1 /\ s \notin MapViews
    /\ r # s /\ views[r].id = views[s].id

\* C3: an update call (final or not, any content) made on a session whose
\* finalized flag is set leaves the live documents and the session's
\* streamed-lines list unchanged.
C3_UpdateAfterFinalizedIsNoop ==
  [][\A s \in Insts, content \in UpdateContents, isFinal \in BOOLEAN,
        signal \in BOOLEAN :
       (views[s].isFinalized /\ UpdateCall(s, content, isFinal, signal))
       => /\ doc' = doc
          /\ views'[s].streamedLines = views[s].streamedLines
          /\ upd'[s] = upd[s]]_vars

\* C3 witness: an update call was turned away on a finalized session that
\* was never reverted
C3_Witness ==
  \E s \in Created :
    /\ views[s].isFinalized /\ ~views[s].isReverted
    /\ effects[s].ignoredUpdates > 0

\* a step of an operation on s that was called after revertAndClose had
\* completed on s
LateStep(s) ==
  \/ /\ rev[s].pc = "done"
     /\ \/ \E content \in UpdateContents, isFinal \in BOOLEAN, signal \in BOOLEAN :
             UpdateCall(s, content, isFinal, signal)
        \/ RevertCall(s)
        \/ \E newContent \in NewContents : SaveCall(s, newContent)
        \/ \E k \in 1..Len(focusRuns) :
             FocusNext(k) /\ focusRuns'[k].cur = s
  \/ /\ sav[s].pc # "idle" /\ sav[s].late
     /\ (SaveSaved(s) \/ SaveShown(s))

\* C4: once revertAndClose has completed on a session, every later
\* operation on it (update, saveChanges, revertAndClose, focus) leaves the
\* live documents, their saved state, the open tabs, the refocus flag and
\* the session's flags unchanged.
C4_NoOperationAfterRevert ==
  [][\A s \in Insts :
       LateStep(s) => /\ UNCHANGED <<doc, file, tabs, needFocusDiffViews>>
                      /\ views'[s] = views[s]]_vars

\* C5: a second revertAndClose call on a session (the first one completed
\* or still under way) changes nothing, and no teardown effect of
\* revertAndClose (the reverting edit, save-all, closing the views,
\* reopening the plain tab) runs twice for one session.
C5_RevertIdempotent ==
  /\ [](\A s \in Insts : /\ effects[s].edits <= 1
                         /\ effects[s].saveAlls <= 1
                         /\ effects[s].closes <= 1
                         /\ effects[s].reopens <= 1)
  /\ [][\A s \in Insts :
          (views[s].isReverted /\ RevertCall(s))
          => UNCHANGED <<hostVars, registryVars, views, rev, upd, sav,
                         focusRuns, disposeVars>>]_vars

\* C5 witness: a second revertAndClose call was made on a session whose
\* revert has run through all its teardown effects
C5_Witness ==
  \E s \in Created :
    /\ effects[s].ignoredReverts > 0
    /\ rev[s].pc = "done"
    /\ effects[s].edits = 1 /\ effects[s].saveAlls = 1
    /\ effects[s].closes = 1 /\ effects[s].reopens = 1

\* C6 as claimed: when revertAndClose completes, from whatever state it was
\* invoked (created, streaming, finalized, after saveChanges), the live
\* document holds the session's original content (read for the runs in
\* which the human did nothing and no update of the session was in flight
\* when revertAndClose was invoked).
C6_RevertRestoresOriginal ==
  [][\A s \in Insts :
       (/\ rev[s].pc # "done" /\ rev'[s].pc = "done"
        /\ HumanIdle /\ ~rev[s].raced)
       => doc'[views[s].fileUri].content = views[s].originalContent]_vars

\* C6 amended: revertAndClose invoked on a document with unsaved changes,
\* with the converter returning data, replaces the document's content by the
\* session's original content; invoked on a document without unsaved
\* changes (as after saveChanges) it leaves the documents as they are and
\* goes on to close the views.
C6_RevertRestoresDirtyDocument ==
  [][\A s \in Insts :
       /\ (RevertDecoded(s) /\ effects'[s].edits # effects[s].edits)
          => doc'[views[s].fileUri].content = views[s].originalContent
       /\ (RevertCall(s) /\ ~views[s].isReverted
           /\ ~doc[views[s].fileUri].isDirty)
          => doc' = doc /\ rev'[s].pc = "closing"
       /\ (RevertCloseViews(s) \/ RevertReopen(s)) => doc' = doc]_vars

\* C6 witness: a finalized session whose proposed content had reached the
\* document was reverted, and the document holds the original content again
C6_Witness ==
  \E s \in Created :
    /\ views[s].isFinalized /\ upd[s].pc = "idle"
    /\ effects[s].edits = 1 /\ rev[s].pc = "done"
    /\ views[s].originalContent = ContentAB
    /\ doc[views[s].fileUri].content = ContentAB

\* C7: once a session is reverted, a final update that was in flight does
\* not write the proposed content into the live document.
C7_RevertedUpdateWritesNothing ==
  [][\A s \in Insts :
       (views[s].isReverted /\ UpdateDecoded(s)) => doc' = doc]_vars

\* C8: every registered session id has exactly one open comparison view
\* carrying that id (read for the states in which the human has closed
\* nothing, no getOrCreate call was rejected and no tab-close notification
\* is still waiting for the hook).
C8_OneViewPerRegisteredId ==
  (/\ HumanIdle /\ ~tabEvent
   /\ \A c \in 1..Len(calls) : calls[c].st # "rejected") =>
    \A id \in MapIds : Cardinality(DiffTabsOf(id)) = 1

\* the three contents of C9, normalized the way saveChanges normalizes
NormalizedFor(r, content) == Normalize(content, NewContentEOL(r.newContent))

\* C9: userEdits is present iff the pre-save document content differs from
\* the caller's baseline, autoFormattingEdits iff the pre-save content
\* differs from the post-save content (all three normalized).
C9_PatchesPresentIffDifferent ==
  \A s \in Insts :
    LET r == saveResult[s]
    IN  r.returned =>
          /\ r.userEdits =
               (NormalizedFor(r, r.preSave) # NormalizedFor(r, r.newContent))
          /\ r.autoFormattingEdits =
               (NormalizedFor(r, r.preSave) # NormalizedFor(r, r.postSave))

\* C10: the edit summary saveChanges returns is the added and removed line
\* counts of a line diff between the original content snapshot and the
\* post-save content of the live document.
C10_EditSummaryOfPostSaveContent ==
  \A s \in Insts :
    saveResult[s].returned =>
      saveResult[s].editSummary =
        GetEditSummary(views[s].originalContent, saveResult[s].postSave)

\* how many byte-order-marks a content holds
CountBom(content) == Cardinality({i \in 1..Len(content) : content[i] = BOM})

\* the final update of s delivered a content that begins with a
\* byte-order-mark, and its edit has reached the document
FinalBomDelivered(s) ==
  /\ views[s].isFinalized /\ upd[s].pc = "idle"
  /\ \E content \in UpdateContents :
       /\ StartsWith(content, BOM)
       /\ views[s].streamedLines = AccumulatedLines(content, TRUE)
       /\ doc[views[s].fileUri].content = StripBom(content)

\* C11: when a content that begins with a byte-order-mark was delivered by
\* a final update and saveChanges then saves the document, the saved file
\* holds exactly one byte-order-mark (read for the runs in which the human
\* did nothing).
C11_SavedContentHasOneBom ==
  [][\A s \in Insts :
       (FinalBomDelivered(s) /\ HumanIdle /\ SaveSaved(s))
       => CountBom(file'[views[s].fileUri].content) = 1]_vars

\* the registered ids without an open comparison view, and the registered
\* ids that target the file path of one of them
ClosedIds == {id \in MapIds : DiffTabsOf(id) = {}}
ClosedOrSamePath ==
  {id \in MapIds :
     \E c \in ClosedIds : views[MapGet(id)].fileUri = views[MapGet(c)].fileUri}

\* C12: when the hook handles a tab-close event, every registered session
\* whose comparison view is not among the open tabs, and every registered
\* session of the same file path, is disposed and removed from the registry
\* (no revertAndClose call is needed for it).
C12_ClosedSessionsAreTornDown ==
  [][HandleTabChanges =>
       \A id \in ClosedOrSamePath :
         LET s == MapGet(id)
         IN  /\ \A i \in 1..Len(DiffViewMap') : DiffViewMap'[i].id # id
             /\ views'[s].disposed = views[s].disposed + 1
             /\ views'[s].isReverted = views[s].isReverted]_vars

\* C12 witness: the human closed the comparison view of one session; that
\* session and a second one of the same file path, whose own view is still
\* open, were disposed and removed, and neither was reverted
C12_Witness ==
  \E s, r \in Created :
    /\ s # r /\ views[s].fileUri = views[r].fileUri
    /\ ~HumanIdle /\ ~views[s].fileExists
    /\ DiffTabsOf(views[s].id) = {} /\ DiffTabsOf(views[r].id) # {}
    /\ views[s].disposed = 1 /\ views[r].disposed = 1
    /\ s \notin MapViews /\ r \notin MapViews
    /\ ~views[s].isReverted /\ ~views[r].isReverted

\* C13: a tab-close event tears down only the sessions closed from outside:
\* a registered session whose comparison view is still among the open tabs,
\* and whose file path is not that of a session without a view, stays
\* registered and is not disposed when the hook handles the event.
C13_OpenSessionsSurviveTabClose ==
  [][HandleTabChanges =>
       \A id \in MapIds \ ClosedOrSamePath :
         /\ \E i \in 1..Len(DiffViewMap') :
              DiffViewMap'[i] = [id |-> id, view |-> MapGet(id)]
         /\ views'[MapGet(id)].disposed = 0]_vars

\* nothing of the engine is under way and no tab-close event waits
Quiet ==
  /\ ~tabEvent /\ gc.pc = "idle" /\ focusRuns = <<>>
  /\ \A s \in Insts : upd[s].pc = "idle" /\ sav[s].pc = "idle"
                      /\ rev[s].pc \in {"idle", "done", "rejected"}

\* C14: once revertAndClose has run on a session and the engine has come
\* to rest, the session is removed from the registry and disposed, whether
\* the document was dirty or not and whether the decode returned data or
\* not (read for the runs in which the human did nothing and no update of
\* the session was in flight when revertAndClose was invoked).
C14_RevertedSessionIsTornDown ==
  (Quiet /\ HumanIdle) =>
    \A s \in Created :
      (rev[s].pc = "done" /\ ~rev[s].raced)
      => (s \notin MapViews /\ views[s].disposed = 1)

\* the registered sessions that neither saved nor were reverted
LiveOthers ==
  {s \in MapViews : ~saveResult[s].returned /\ ~views[s].isReverted}

\* C15: when the hook handles the tab-close event that follows a
\* saveChanges (the refocus flag is raised), the other live sessions, whose
\* views the save closed, stay registered and undisposed, a refocus of the
\* remaining sessions is started and the flag is cleared (read for the runs
\* in which the human did nothing).
C15_SaveKeepsOtherSessions ==
  [][(HandleTabChanges /\ needFocusDiffViews /\ HumanIdle) =>
       /\ \A s \in LiveOthers :
            /\ \E i \in 1..Len(DiffViewMap') : DiffViewMap'[i].view = s
            /\ views'[s].disposed = 0
       /\ ~needFocusDiffViews'
       /\ Len(focusRuns') = Len(focusRuns) + 1]_vars

\* C16: a cancellation signal passed to update triggers revert-and-close
\* at most once for the session, and once the session is disposed its
\* listener is detached: a signal that fires after dispose starts no revert
\* (a disposed session is not registered, so only the listener reaches it).
C16_NoRevertAfterDispose ==
  [][\A s \in Insts :
       /\ effects'[s].closes <= 1
       /\ (views[s].disposed > 0 /\ RevertCall(s))
          => (views'[s].isReverted = views[s].isReverted /\ rev'[s] = rev[s])]_vars

\* C17: the teardown paths never fail: whatever host call fails under
\* dispose or revertAndClose, the failure is swallowed and the promise of
\* revertAndClose does not reject.
C17_TeardownNeverRejects ==
  \A s \in Insts : rev[s].pc # "rejected"

\* C20: whenever the registry holds at least one session, the tab-close
\* hook is installed.
C20_HookInstalledWhileRegistered ==
  Len(DiffViewMap) > 0 => DiffViewDisposable

\* C18: both content providers are read-only: every call of writeFile,
\* createDirectory, delete or rename, with whatever arguments, throws
\* NoPermissions and leaves what the provider stores as it was (answer'.op
\* names the method a step of the providers calls).
C18_ProvidersAreReadOnly ==
  [][answer'.op \in MutationOps
       => /\ answer'.error = "NoPermissions"
          /\ modifiedContent' = modifiedContent
          /\ fired' = fired]_vars

\* C18 witness: writeFile of the modified-content provider was called for a
\* key that holds bytes, and threw
C18_Witness ==
  /\ answer.provider = "modified" /\ answer.op = "writeFile"
  /\ answer.error = "NoPermissions"
  /\ modifiedContent[answer.key] = Entry(<<7>>)

\* the setForFile calls made for this id and version
SetsOf(id, version) ==
  {i \in 1..Len(setLog) : setLog[i].id = id /\ setLog[i].version = version}

\* what the most recent setForFile for this id and version stored
LastSet(id, version) ==
  IF SetsOf(id, version) = {} THEN NoEntry
  ELSE Entry(setLog[CHOOSE i \in SetsOf(id, version) :
                      \A j \in SetsOf(id, version) : j <= i].data)

\* C19: the modified-content provider holds, for every (id, version), the
\* bytes of the most recent setForFile for exactly that pair and nothing for
\* a pair or key never written; readFile returns those bytes (also when they
\* are empty) and fails with FileNotFound for a key without entry; and every
\* setForFile has fired one change notification for its key.
C19_ReadFileReturnsLastSet ==
  /\ \A id \in ProviderIds, version \in Versions :
       modifiedContent[Key(id, version)] = LastSet(id, version)
  /\ modifiedContent[UnknownKey] = NoEntry
  /\ answer.op = "readFile" =>
       /\ \A id \in ProviderIds, version \in Versions :
            answer.key = Key(id, version) =>
              answer = IF SetsOf(id, version) = {}
                       THEN Threw("modified", "readFile", answer.key,
                                  "FileNotFound")
                       ELSE Returned("modified", "readFile", answer.key,
                                     LastSet(id, version).data)
       /\ answer.key = UnknownKey => answer.error = "FileNotFound"
  /\ Len(fired) = Len(setLog)
  /\ \A i \in 1..Len(fired) :
       /\ fired[i].type = "Changed" /\ fired[i].scheme = ModifiedScheme
       /\ fired[i].query = Key(setLog[i].id, setLog[i].version)

\* C19 witness: a key was written twice, first with bytes and then with
\* empty bytes, and readFile of the key returned the empty bytes
C19_Witness ==
  \E id \in ProviderIds :
    /\ Cardinality(SetsOf(id, 0)) = 2
    /\ setLog[1].data = <<7>> /\ setLog[2].data = Empty
    /\ answer = Returned("modified", "readFile", Key(id, 0), Empty)

\* no getOrCreate call is queued or running
NoCallInProgress == gc.pc = "idle" /\ Queued = {}

\* C21: whenever the registry is empty and no getOrCreate call is in
\* progress, the tab-close hook is not installed (after the cleanup that
\* removes the last session, and after a getOrCreate call failed).
C21_NoDanglingHook ==
  (Len(DiffViewMap) = 0 /\ NoCallInProgress) => ~DiffViewDisposable

\* the steps of the getOrCreate call that holds the queue
GetOrCreateStep ==
  \/ GetOrCreateOpen
  \/ GetOrCreateActivated
  \/ GetOrCreateTimeout
  \/ GetOrCreateRegister

\* C22: a getOrCreate call whose comparison view does not become active
\* within the timeout is rejected, registers no session for its id and
\* releases the queue; the oldest queued call can then take its turn, and
\* the call that holds the queue can always take its next step.
C22_TimeoutRejectsAndReleases ==
  [][/\ GetOrCreateTimeout
          => /\ calls'[gc.call].st = "rejected"
             /\ calls[gc.call].id \notin MapIds'
             /\ DiffViewMap' = DiffViewMap
             /\ nViews' = nViews
             /\ gc' = Idle
     /\ (gc = Idle /\ Queued # {}) => ENABLED GetOrCreateStart
     /\ gc # Idle => ENABLED GetOrCreateStep]_vars

\* a call was rejected by the timeout and a later call for the same id,
\* issued while the first was under way, was resolved with a session
C22_Witness ==
  \E c1, c2 \in 1..Len(calls) :
    /\ c1 < c2
    /\ calls[c1].st = "rejected"
    /\ c1 \in calls[c2].pending
    /\ calls[c2].st = "resolved"
    /\ calls[c2].result # 0

\* the line structure of a content, read off the positions of its line feeds
WithoutBom(content) ==
  IF content # <<>> /\ content[1] = BOM THEN Tail(content) ELSE content

LFPositions(c) == {i \in 1..Len(c) : c[i] = LF}

\* the position of the k-th line feed; 0 for k = 0
NthLF(c, k) ==
  IF k = 0 THEN 0
  ELSE CHOOSE i \in LFPositions(c) :
         Cardinality({j \in LFPositions(c) : j <= i}) = k

\* the lines that are closed by a line feed
CompleteLines(c) ==
  [k \in 1..Cardinality(LFPositions(c)) |->
     SubSeq(c, NthLF(c, k - 1) + 1, NthLF(c, k) - 1)]

\* what follows the last line feed
LastLine(c) == SubSeq(c, NthLF(c, Cardinality(LFPositions(c))) + 1, Len(c))

ExpectedLines(content, isFinal) ==
  LET c == WithoutBom(content)
  IN  IF isFinal THEN Append(CompleteLines(c), LastLine(c))
      ELSE CompleteLines(c)

IsPrefix(a, b) == Len(a) <= Len(b) /\ SubSeq(b, 1, Len(a)) = a

\* C23: an update on a session that is neither finalized nor reverted sets
\* the streamed lines (at once, or when its scrolling animation is over) to
\* the complete lines of the BOM-stripped content, plus the last line when
\* the update is final; when the content extends the content of the
\* previous non-final update, the previous streamed lines are a prefix of
\* the new ones.
C23_StreamedLinesAreCompleteLines ==
  [][/\ used'.updates # used.updates
          => \A s \in Insts, content \in UpdateContents,
                isFinal \in BOOLEAN, signal \in BOOLEAN :
               (UpdateCall(s, content, isFinal, signal)
                  /\ ~UpdateIgnored(views[s]))
                 => LET lines == ExpectedLines(content, isFinal)
                    IN  /\ \/ /\ views'[s].streamedLines = lines
                              /\ upd'[s].pc # "scrolling"
                           \/ /\ upd'[s].pc = "scrolling"
                              /\ upd'[s].lines = lines
                        /\ \A c0 \in UpdateContents :
                             (/\ IsPrefix(c0, content)
                              /\ views[s].streamedLines
                                   = ExpectedLines(c0, FALSE))
                               => IsPrefix(views[s].streamedLines, lines)
     /\ \A s \in Insts :
          UpdateScrolled(s) => views'[s].streamedLines = upd[s].lines]_vars

\* a non-final update delivered a content that ends in the middle of a
\* line: the streamed lines hold the complete first line only
C23_Witness ==
  \E s \in Created :
    /\ ~views[s].isFinalized
    /\ ~views[s].isReverted
    /\ upd[s] = Idle
    /\ views[s].streamedLines = <<<<"a">>>>

\* C24: no step of a non-final update changes the live document or the
\* file (update up to its first await and the scrolling animation leave
\* both alone); within update the document changes only in the edit of the
\* final update, which replaces its whole content by the proposed content.
C24_OnlyFinalUpdateEditsDocument ==
  [][/\ used'.updates # used.updates => doc' = doc /\ file' = file
     /\ \A s \in Insts :
          /\ UpdateScrolled(s) => doc' = doc /\ file' = file
          /\ (UpdateDecoded(s) /\ doc' # doc)
               => /\ upd[s].isFinal
                  /\ doc' = [doc EXCEPT ![views[s].fileUri] =
                               [content |-> upd[s].content,
                                isDirty |-> TRUE]]
                  /\ file' = file]_vars

\* the only session took a non-final update and then the final one, whose
\* edit put the proposed content into the document
C24_Witness ==
  /\ nViews = 1
  /\ views[1].isFinalized
  /\ upd[1] = Idle
  /\ used.updatesCap - used.updates - effects[1].ignoredUpdates >= 2
  /\ effects[1].skippedEdits = 0
  /\ doc[views[1].fileUri] = [content |-> ContentAC, isDirty |-> TRUE]
  /\ views[1].originalContent # ContentAC

\* C25: when the converter gives no data (or throws) in the final update,
\* the update ends normally, the document and the file are unchanged and
\* the session stays finalized; when it gives no data in revertAndClose,
\* the revert goes on to close the views without an edit and without
\* saving.
C25_AbsentDecodeIsHarmless ==
  [][\A s \in Insts :
       /\ \A outcome \in {"absent", "throws"} :
            UpdateDecodedAs(s, outcome)
              => /\ doc' = doc /\ file' = file
                 /\ upd'[s] = Idle
                 /\ views'[s].isFinalized
       /\ RevertDecodedAs(s, "absent")
            => /\ doc' = doc /\ file' = file
               /\ rev'[s].pc = "closing"
               /\ effects'[s].edits = effects[s].edits
               /\ effects'[s].saveAlls = effects[s].saveAlls
       /\ effects[s].skippedReverts > 0
            => /\ effects[s].edits = 0 /\ effects[s].saveAlls = 0
               /\ rev[s].pc \in {"closing", "reopening", "done", "rejected"}]_vars

\* the converter gave no data in the final update of a session and again
\* in its revert, which completed
C25_Witness ==
  \E s \in Created :
    /\ views[s].isFinalized
    /\ effects[s].skippedEdits = 1
    /\ effects[s].skippedReverts = 1
    /\ effects[s].edits = 0 /\ effects[s].saveAlls = 0
    /\ rev[s].pc = "done"

\* C26: a dispose releases the listeners the session collected, and a file
\* is deleted only for a disposed session that created it, and only while
\* it is empty.
C26_DisposeDeletesOnlyEmptyNewFiles ==
  [][/\ \A s \in Created :
          views'[s].disposed > views[s].disposed => ~views'[s].listening
     /\ \A path \in Paths :
          DisposeDelete(path)
            => /\ \E s \in Created : /\ views[s].fileUri = path
                                     /\ views[s].disposed > 0
                                     /\ ~views[s].fileExists
               /\ Len(file[path].content) = 0]_vars

====
